---- MODULE Spec2Model ----
(***************************************************************************)
(* Model of the persisted per-identity rate limiter                        *)
(* (package ratelimiter, src/smartcard/globalplatform/commands.go          *)
(* lines 104-273).                                                         *)
(*                                                                         *)
(* Time is counted in whole seconds: `now` is time.Now().Unix(), a         *)
(* Config.Interval of k stands for k seconds and a ban duration of d       *)
(* stands for d seconds.  Every method of PersistedRateLimiter is split    *)
(* at its store calls, its critical sections on r.mu and its calls on a    *)
(* bucket, which are the points where another caller can interleave.       *)
(* Under Spec one caller at a time is inside the limiter; under SpecConc   *)
(* the callers interleave, over at most MaxCalls calls with a healthy      *)
(* store and a clock that stands still.                                    *)
(***************************************************************************)
EXTENDS Integers, Sequences, FiniteSets, TLC

\* ---------------------------------------------------------------- bounds
MaxTime == 2
MaxCount == 2
MaxBuckets == 4
MaxCalls == 4

Ids == {"a"}
NoId == "-"
Procs == {"p", "q"}
\* the caller that runs when calls do not overlap
Caller == "p"
Counts == 0..MaxCount
Durations == {0, 1, 2}

Nil == 0

\* ---------------------------------------------------------------- Config
NoConfig == [Interval |-> 0, Capacity |-> 0, Quantum |-> 0]

\* the Config handed to NewPersisted
defaultConfig == [Interval |-> 1, Capacity |-> 2, Quantum |-> 1]

\* the Config of a stored per-identity override
overrideConfig == [Interval |-> 1, Capacity |-> 1, Quantum |-> 1]

\* the configs a caller hands to UpdateConfig
Configs ==
    { [Interval |-> 1, Capacity |-> 2, Quantum |-> 1],
      [Interval |-> 2, Capacity |-> 2, Quantum |-> 2],
      [Interval |-> 1, Capacity |-> 1, Quantum |-> 1],
      [Interval |-> 1, Capacity |-> 0, Quantum |-> 1] }

\* ------------------------------------------------------ encoding/binary
\* binary.BigEndian.PutUint64 into the first 8 bytes of a buffer.
RECURSIVE BigEndianBytes(_, _)
BigEndianBytes(v, n) ==
    IF n = 0 THEN << >>
    ELSE Append(BigEndianBytes(v \div 256, n - 1), v % 256)

PutUint64(v) == BigEndianBytes(v, 8)

\* binary.BigEndian.Uint64 of the first 8 bytes of b.
RECURSIVE BigEndianValue(_, _)
BigEndianValue(b, n) ==
    IF n = 0 THEN 0
    ELSE BigEndianValue(b, n - 1) * 256 + b[n]

Uint64(b) == BigEndianValue(b, 8)

\* ------------------------------------------------------------------ rlp
\* rlp encoding of a Config whose three fields are below 128: a list
\* header 0xc0+3 and one byte per field (0x80 for the value 0).
RlpItem(v) == IF v = 0 THEN 128 ELSE v

RlpEncodeConfig(c) ==
    << 192 + 3, RlpItem(c.Interval), RlpItem(c.Capacity), RlpItem(c.Quantum) >>

RlpItemOk(b) == b \in 1..128

RlpValue(b) == IF b = 128 THEN 0 ELSE b

\* rlp.DecodeBytes(val, &cfg) on such a list; anything else is an error.
RlpDecodeConfig(val) ==
    IF /\ Len(val) = 4
       /\ val[1] = 192 + 3
       /\ \A i \in 2..4 : RlpItemOk(val[i])
    THEN [ok |-> TRUE,
          cfg |-> [Interval |-> RlpValue(val[2]),
                   Capacity |-> RlpValue(val[3]),
                   Quantum |-> RlpValue(val[4])]]
    ELSE [ok |-> FALSE, cfg |-> NoConfig]

\* a config record that announces three bytes and holds two
UndecodableConfig == << 192 + 3, 1, 2 >>

\* a capacity record of the wrong length (8 bytes)
MalformedCapacity == PutUint64(1)

\* ------------------------------------------------------------- db keys
prefix == "ratelimit"

\* db.Key(kind, r.prefix, id)
Key(kind, id) == << kind, prefix, id >>

RateLimitBlacklist == "RateLimitBlacklist"
RateLimitConfig == "RateLimitConfig"
RateLimitCapacity == "RateLimitCapacity"

VARIABLES
    now,          \* time.Now().Unix()
    db,           \* r.db: the records present in the store, by key
    initialized,  \* r.initialized: identity -> bucket reference, Nil if absent
    heap,         \* the *ratelimit.Bucket objects that are still referenced
    mu,           \* r.mu: Nobody, or the caller that holds it
    proc,         \* each caller's position, arguments, locals and result
    acct,         \* per bucket: tokens handed out by TakeAvailable calls
    ban,          \* per identity: when and for how long it was last banned
    conc,         \* TRUE when callers may interleave
    tally,        \* per identity: tokens granted and the kinds of calls made,
                  \* kept while the clock stands still and the store answers
    calls         \* the calls made so far by callers that may interleave

vars == << now, db, initialized, heap, mu, proc, acct, ban, conc, tally, calls >>

\* ---------------------------------------------------------------- store
\* r.db.Get(key, nil) with the store answering (ok) or failing (~ok).
Get(key, ok) ==
    IF ~ok THEN [err |-> "io", val |-> << >>]
    ELSE IF key \in DOMAIN db THEN [err |-> "nil", val |-> db[key]]
    ELSE [err |-> "ErrNotFound", val |-> << >>]

\* r.db.Put(key, val, nil) on a store that answers.
Put(key, val) == [k \in DOMAIN db \cup {key} |-> IF k = key THEN val ELSE db[k]]

\* r.db.Delete(key, nil) on a store that answers.
Delete(key) == [k \in DOMAIN db \ {key} |-> db[k]]

\* --------------------------------------------------- ratelimit.Bucket
Min(a, b) == IF a < b THEN a ELSE b

\* ratelimit.NewBucketWithQuantum panics unless all three are positive.
ValidConfig(c) == c.Interval > 0 /\ c.Capacity > 0 /\ c.Quantum > 0

\* faulty variant: the bucket starts one quantum above its capacity
newBucketOverfull(c, t) ==
    [capacity |-> c.Capacity, quantum |-> c.Quantum, fillInterval |-> c.Interval,
     availableTokens |-> c.Capacity + c.Quantum, startTime |-> t, latestTick |-> 0]

\* newBucket(c) at time t.
newBucket(c, t) ==
    [capacity |-> c.Capacity, quantum |-> c.Quantum, fillInterval |-> c.Interval,
     availableTokens |-> c.Capacity, startTime |-> t, latestTick |-> 0]

currentTick(b, t) == (t - b.startTime) \div b.fillInterval

\* Bucket.adjustavailableTokens: credit the ticks since latestTick.
adjustavailableTokens(b, tick) ==
    IF b.availableTokens >= b.capacity
    THEN [b EXCEPT !.latestTick = tick]
    ELSE [b EXCEPT !.latestTick = tick,
                   !.availableTokens =
                       Min(b.capacity,
                           b.availableTokens + (tick - b.latestTick) * b.quantum)]

\* Bucket.TakeAvailable(count) at time t: the bucket after it and the
\* amount taken.
BucketTakeAvailable(b, t, count) ==
    IF count <= 0 THEN [bucket |-> b, taken |-> 0]
    ELSE LET a == adjustavailableTokens(b, currentTick(b, t))
         IN IF a.availableTokens <= 0 THEN [bucket |-> a, taken |-> 0]
            ELSE LET n == Min(count, a.availableTokens)
                 IN [bucket |-> [a EXCEPT !.availableTokens = @ - n], taken |-> n]

\* Bucket.Available() at time t: the bucket after it and the value returned.
BucketAvailable(b, t) ==
    LET a == adjustavailableTokens(b, currentTick(b, t))
    IN [bucket |-> a, tokens |-> a.availableTokens]

\* Bucket.Capacity()
BucketCapacity(b) == b.capacity

\* ------------------------------------------------------------- compare
\* 1e9*float64(c.Quantum)/float64(c.Interval) == bucket.Rate(), with
\* bucket.Rate() = 1e9*float64(quantum)/float64(fillInterval).  A zero
\* Interval gives +Inf or NaN, which no bucket's rate equals.
SameRate(c, b) ==
    /\ c.Interval > 0
    /\ c.Quantum * b.fillInterval = b.quantum * c.Interval

\* faulty variant: Quantum and Interval are compared one by one
compareFields(c, b) ==
    /\ c.Capacity = BucketCapacity(b)
    /\ c.Quantum = b.quantum
    /\ c.Interval = b.fillInterval

\* compare(c, bucket), lines 124-127
compare(c, b) == c.Capacity = BucketCapacity(b) /\ SameRate(c, b)

\* ---------------------------------------------------------------- procs
NoBan == [at |-> 0, duration |-> 0]

IdleProc ==
    [op |-> "none", pc |-> "idle", id |-> NoId, count |-> 0, duration |-> 0,
     config |-> NoConfig, bucket |-> Nil, val |-> 0, ret |-> "none", rst |-> 0,
     fail |-> {}, created |-> FALSE, preBucket |-> Nil, preAvail |-> 0,
     preBan |-> NoBan]

Crashed == \E p \in Procs : proc[p].pc = "panic"

Quiet == \A p \in Procs : proc[p].pc = "idle"

\* a caller may enter the limiter
MayCall(p) ==
    /\ ~Crashed
    /\ proc[p].pc = "idle"
    /\ IF conc THEN calls < MaxCalls ELSE Quiet /\ p = Caller

At(p, label) == ~Crashed /\ proc[p].pc = label

\* what a caller sees of the identity when it enters
Enter(p, op, id) ==
    [IdleProc EXCEPT
        !.op = op, !.id = id, !.preBan = ban[id],
        !.preBucket = initialized[id],
        !.preAvail = IF initialized[id] = Nil THEN 0
                     ELSE BucketAvailable(heap[initialized[id]], now).tokens]

\* the store calls of this call that failed so far
Failed(fail, ok, step) == IF ok THEN fail ELSE fail \cup {step}

\* -------------------------------------------------------------- update
\* a step of caller p, whose locals become r; its first step is a call
SetProc(p, r) ==
    /\ proc' = [proc EXCEPT ![p] = r]
    /\ calls' = IF conc /\ proc[p].pc = "idle" THEN calls + 1 ELSE calls

\* the most tokens a tally counts: one more than the default capacity
MaxGranted == defaultConfig.Capacity + 1

\* the most UpdateConfig calls a tally tells apart: none, one, more
ManyUpdates == 2

\* nothing granted, and neither a Create or Remove nor an UpdateConfig yet
NoTally == [granted |-> 0, lifecycle |-> FALSE, updates |-> 0]

\* the identity's history is no longer followed: time has passed, a store
\* call failed, a ban or a stored override came into play, or it has seen
\* both an UpdateConfig and a Create or Remove
Untracked == [granted |-> 0, lifecycle |-> TRUE, updates |-> ManyUpdates]

Tracked(id) == tally[id] # Untracked

Norm(t) == IF t.lifecycle /\ t.updates > 0 THEN Untracked ELSE t

\* the tally of id becomes t when `kept` holds and is given up otherwise
Tally(id, kept, t) ==
    tally' = [tally EXCEPT ![id] = IF kept THEN Norm(t) ELSE Untracked]

Grant(t, n) ==
    [t EXCEPT !.granted = IF @ + n > MaxGranted THEN MaxGranted ELSE @ + n]

\* tokens a call of adjustavailableTokens at time t credits to b
Credit(b, t) ==
    adjustavailableTokens(b, currentTick(b, t)).availableTokens - b.availableTokens

\* the account of bucket ref after a call on it: `grant` tokens were
\* returned by the limiter's TakeAvailable, `other` tokens were debited by a
\* replay or a carry-over, `credit` tokens were credited by a refill
Account(ref, grant, other, credit) ==
    IF acct[ref].dirty \/ other > 0 \/ credit > 0
    THEN [acct EXCEPT ![ref] = [taken |-> 0, dirty |-> TRUE]]
    ELSE [acct EXCEPT ![ref] = [taken |-> @.taken + grant, dirty |-> FALSE]]

\* the buckets still referenced by the registry or by a caller's local
Live(reg, q) ==
    ({ reg[i] : i \in Ids } \cup { q[p].bucket : p \in Procs }
        \cup { q[p].preBucket : p \in Procs }) \ {Nil}

Collect(h, reg, q) == [r \in DOMAIN h \cap Live(reg, q) |-> h[r]]

\* ------------------------------------------------------------ blacklist
\* faulty variant: the ban lasts one second longer
BlacklistedLate(deadline, t) == deadline + 1 >= t

\* Create, line 184: the identity is still banned at time t
Blacklisted(deadline, t) == deadline >= t

\* faulty variant: the duration is not added
DeadlineNow(t, duration) == t

\* blacklist(), line 155: the deadline written for a ban of `duration`
Deadline(t, duration) == t + duration

\* a reference no live bucket has: the address of a new object
FreeRefs == (1..MaxBuckets) \ DOMAIN heap

NewRef == CHOOSE r \in FreeRefs : \A o \in FreeRefs : r <= o

\* ------------------------------------------------------------------ mu
\* r.mu unlocked
Nobody == "nobody"

\* faulty variant: Lock does not wait for the holder
LockNoWait(p) == mu' = p

\* r.mu.Lock(): p goes on when nobody holds r.mu
Lock(p) == mu = Nobody /\ mu' = p

\* faulty variant: r.mu stays with the caller
UnlockNever(p) == mu' = mu

\* r.mu.Unlock()
Unlock(p) == mu' = Nobody

\* ---------------------------------------------------------- getOrCreate
\* getOrCreate, lines 167-169: Lock and look the identity up.  The caller,
\* whose locals are `me`, goes on at `next` holding r.mu and what it found.
Lookup(p, me, id, next) ==
    /\ Lock(p)
    /\ SetProc(p, [me EXCEPT !.pc = next, !.bucket = initialized[id]])
    /\ UNCHANGED << now, db, initialized, heap, acct, ban, conc, tally >>

\* getOrCreate, lines 170-176 and the deferred Unlock: a bucket that was
\* not found is made from config and registered.  newBucket panics on a
\* config that is not positive; the deferred Unlock releases r.mu.
Insert(p, config, next) ==
    /\ LET id == proc[p].id
       IN IF proc[p].bucket # Nil
          THEN /\ SetProc(p, [proc[p] EXCEPT !.pc = next])
               /\ UNCHANGED << initialized, heap, acct >>
          ELSE IF ~ValidConfig(config)
          THEN /\ SetProc(p, [proc[p] EXCEPT !.pc = "panic"])
               /\ UNCHANGED << initialized, heap, acct >>
          ELSE /\ FreeRefs # {}
               /\ LET ref == NewRef
                  IN /\ heap' = [r \in DOMAIN heap \cup {ref} |->
                                   IF r = ref THEN newBucket(config, now) ELSE heap[r]]
                     /\ acct' = [r \in DOMAIN acct \cup {ref} |->
                                   IF r = ref THEN [taken |-> 0, dirty |-> FALSE]
                                   ELSE acct[r]]
                     /\ initialized' = [initialized EXCEPT ![id] = ref]
                     /\ SetProc(p, [proc[p] EXCEPT !.pc = next, !.bucket = ref,
                                                   !.created = TRUE])
    /\ Unlock(p)
    /\ UNCHANGED << now, db, ban, conc, tally >>

\* --------------------------------------------------------------- Create
\* lines 180-186: read the blacklist record.  On a store error val is nil
\* and binary.BigEndian.Uint64(val) panics.
CreateBlacklist(p, id, ok) ==
    /\ MayCall(p)
    /\ LET g == Get(Key(RateLimitBlacklist, id), ok)
           me == [Enter(p, "Create", id) EXCEPT !.fail = Failed(@, ok, "blacklist")]
       IN IF g.err = "ErrNotFound"
          THEN SetProc(p, [me EXCEPT !.pc = "c_config"])
          ELSE IF Len(g.val) < 8
          THEN SetProc(p, [me EXCEPT !.pc = "panic"])
          ELSE IF Blacklisted(Uint64(g.val), now)
          THEN SetProc(p, [me EXCEPT !.pc = "done", !.ret = "blacklisted"])
          ELSE SetProc(p, [me EXCEPT !.pc = "c_delete"])
    /\ Tally(id, ok /\ Key(RateLimitBlacklist, id) \notin DOMAIN db,
             [tally[id] EXCEPT !.lifecycle = TRUE])
    /\ UNCHANGED << now, db, initialized, heap, mu, acct, ban, conc >>

\* line 187: delete the expired record; the error is not looked at.
CreateDelete(p, ok) ==
    /\ At(p, "c_delete")
    /\ db' = IF ok THEN Delete(Key(RateLimitBlacklist, proc[p].id)) ELSE db
    /\ ban' = IF ok THEN [ban EXCEPT ![proc[p].id] = NoBan] ELSE ban
    /\ SetProc(p, [proc[p] EXCEPT !.pc = "c_config",
                                  !.fail = Failed(@, ok, "delete")])
    /\ UNCHANGED << now, initialized, heap, mu, acct, conc, tally >>

\* lines 189-200: the config of the identity.
CreateConfig(p, ok) ==
    /\ At(p, "c_config")
    /\ LET g == Get(Key(RateLimitConfig, proc[p].id), ok)
           me == [proc[p] EXCEPT !.fail = Failed(@, ok, "config")]
       IN IF g.err = "ErrNotFound"
          THEN SetProc(p, [me EXCEPT !.pc = "c_get", !.config = defaultConfig])
          ELSE IF g.err # "nil"
          THEN SetProc(p, [me EXCEPT !.pc = "done", !.ret = "ioerror"])
          ELSE LET d == RlpDecodeConfig(g.val)
               IN IF ~d.ok
                  THEN SetProc(p, [me EXCEPT !.pc = "done", !.ret = "decode"])
                  ELSE SetProc(p, [me EXCEPT !.pc = "c_get", !.config = d.cfg])
    /\ Tally(proc[p].id, ok /\ Key(RateLimitConfig, proc[p].id) \notin DOMAIN db,
             tally[proc[p].id])
    /\ UNCHANGED << now, db, initialized, heap, mu, acct, ban, conc >>

\* line 201, getOrCreate: lookup
CreateGetOrCreate(p) ==
    /\ At(p, "c_get")
    /\ Lookup(p, proc[p], proc[p].id, "c_insert")

\* line 201, getOrCreate: insert
CreateInsert(p) ==
    /\ At(p, "c_insert")
    /\ Insert(p, proc[p].config, "c_capacity")

\* faulty variant: a token per second since the record was saved is given back
ReplayLessElapsed(val) ==
    LET consumed == Uint64(SubSeq(val, 1, 8))
        elapsed == now - Uint64(SubSeq(val, 9, 16))
    IN IF consumed > elapsed THEN consumed - elapsed ELSE 0

\* Create, line 210: int64(binary.BigEndian.Uint64(val[:8]))
ReplayAmount(val) == Uint64(SubSeq(val, 1, 8))

\* faulty variant: any record of at least 8 bytes is replayed
CapacityOutcomeShort(g) ==
    IF g.err = "ErrNotFound" THEN "absent"
    ELSE IF Len(g.val) < 8 THEN "malformed"
    ELSE "replay"

\* Create, lines 204-209: what the loaded capacity record leads to
CapacityOutcome(g) ==
    IF g.err = "ErrNotFound" THEN "absent"
    ELSE IF Len(g.val) # 16 THEN "malformed"
    ELSE "replay"

\* lines 202-209: the stored capacity record.
CreateCapacity(p, ok) ==
    /\ At(p, "c_capacity")
    /\ LET g == Get(Key(RateLimitCapacity, proc[p].id), ok)
           me == [proc[p] EXCEPT !.fail = Failed(@, ok, "capacity")]
           out == CapacityOutcome(g)
       IN IF out = "absent"
          THEN SetProc(p, [me EXCEPT !.pc = "done", !.ret = "nil"])
          ELSE IF out = "malformed"
          THEN SetProc(p, [me EXCEPT !.pc = "done", !.ret = "nil"])
          ELSE SetProc(p, [me EXCEPT !.pc = "c_replay", !.val = ReplayAmount(g.val)])
    /\ Tally(proc[p].id, ok, tally[proc[p].id])
    /\ UNCHANGED << now, db, initialized, heap, mu, acct, ban, conc >>

\* line 210: replay the stored consumption on the bucket.
CreateReplay(p) ==
    /\ At(p, "c_replay")
    /\ LET ref == proc[p].bucket
           t == BucketTakeAvailable(heap[ref], now, proc[p].val)
       IN /\ heap' = [heap EXCEPT ![ref] = t.bucket]
          /\ acct' = Account(ref, 0, t.taken,
                             IF proc[p].val <= 0 THEN 0 ELSE Credit(heap[ref], now))
          /\ SetProc(p, [proc[p] EXCEPT !.pc = "done", !.ret = "nil"])
    /\ UNCHANGED << now, db, initialized, mu, ban, conc, tally >>

\* ---------------------------------------------------------------- store
\* store(), line 235: bucket.Capacity()-bucket.Available().
ReadConsumed(p, next) ==
    LET ref == proc[p].bucket
        a == BucketAvailable(heap[ref], now)
    IN /\ heap' = [heap EXCEPT ![ref] = a.bucket]
       /\ acct' = Account(ref, 0, 0, Credit(heap[ref], now))
       /\ SetProc(p, [proc[p] EXCEPT !.pc = next,
                                     !.val = BucketCapacity(heap[ref]) - a.tokens])
       /\ UNCHANGED << now, db, initialized, mu, ban, conc, tally >>

\* store(), lines 234-236: the 16 bytes written
Snapshot(consumed, t) == PutUint64(consumed) \o PutUint64(t)

\* store(), lines 237-242: write the record; the db after it.
StorePut(p, ok) ==
    IF ok THEN Put(Key(RateLimitCapacity, proc[p].id), Snapshot(proc[p].val, now))
    ELSE db

\* -------------------------------------------------------- TakeAvailable
\* faulty variant: a stored override is used when it decodes
ImplicitConfigStored(id) ==
    LET k == Key(RateLimitConfig, id)
    IN IF k \in DOMAIN db /\ RlpDecodeConfig(db[k]).ok
       THEN RlpDecodeConfig(db[k]).cfg
       ELSE defaultConfig

\* lines 246 and 255: the config of a bucket made by TakeAvailable or
\* Available is r.defaultConfig
ImplicitConfig(id) == defaultConfig

\* lines 245-246, getOrCreate: lookup
TakeGetOrCreate(p, id, count) ==
    /\ MayCall(p)
    /\ Lookup(p, [Enter(p, "TakeAvailable", id) EXCEPT !.count = count],
              id, "t_insert")

\* line 246, getOrCreate: insert
TakeInsert(p) ==
    /\ At(p, "t_insert")
    /\ Insert(p, ImplicitConfig(proc[p].id), "t_take")

\* line 247
TakeBucket(p) ==
    /\ At(p, "t_take")
    /\ LET ref == proc[p].bucket
           t == BucketTakeAvailable(heap[ref], now, proc[p].count)
       IN /\ heap' = [heap EXCEPT ![ref] = t.bucket]
          /\ acct' = Account(ref, 0, 0,
                             IF proc[p].count <= 0 THEN 0 ELSE Credit(heap[ref], now))
          /\ SetProc(p, [proc[p] EXCEPT !.pc = "t_read", !.rst = t.taken,
                                        !.preAvail = BucketAvailable(heap[ref], now).tokens])
    /\ UNCHANGED << now, db, initialized, mu, ban, conc, tally >>

\* line 248, store(): read the bucket
TakeStoreRead(p) ==
    /\ At(p, "t_read")
    /\ ReadConsumed(p, "t_put")

\* faulty variant: the requested count is returned instead of the amount taken
TakeResultRequested(count, rst, ok) == count

\* faulty variant: a failed write makes the call return nothing
TakeResultUnlessFailed(count, rst, ok) == IF ok THEN rst ELSE 0

\* lines 247-251: what TakeAvailable(id, count) returns when the bucket gave
\* rst and the write of the record answered (ok) or failed
TakeResult(count, rst, ok) == rst

\* line 248, store(): write the record; lines 249-251: an error is logged
TakeStorePut(p, ok) ==
    /\ At(p, "t_put")
    /\ db' = StorePut(p, ok)
    /\ SetProc(p, [proc[p] EXCEPT !.pc = "done", !.ret = "nil",
                                  !.rst = TakeResult(proc[p].count, @, ok),
                                  !.fail = Failed(@, ok, "snapshot")])
    /\ acct' = Account(proc[p].bucket, TakeResult(proc[p].count, proc[p].rst, ok), 0, 0)
    /\ Tally(proc[p].id, ok,
             Grant(tally[proc[p].id], TakeResult(proc[p].count, proc[p].rst, ok)))
    /\ UNCHANGED << now, initialized, heap, mu, ban, conc >>

\* ------------------------------------------------------------ Available
\* lines 254-255, getOrCreate: lookup
AvailableGetOrCreate(p, id) ==
    /\ MayCall(p)
    /\ Lookup(p, Enter(p, "Available", id), id, "a_insert")

\* line 255, getOrCreate: insert
AvailableInsert(p) ==
    /\ At(p, "a_insert")
    /\ Insert(p, ImplicitConfig(proc[p].id), "a_read")

\* line 255, Available()
AvailableBucket(p) ==
    /\ At(p, "a_read")
    /\ LET ref == proc[p].bucket
           a == BucketAvailable(heap[ref], now)
       IN /\ heap' = [heap EXCEPT ![ref] = a.bucket]
          /\ acct' = Account(ref, 0, 0, Credit(heap[ref], now))
          /\ SetProc(p, [proc[p] EXCEPT !.pc = "done", !.ret = "nil", !.rst = a.tokens])
    /\ UNCHANGED << now, db, initialized, mu, ban, conc, tally >>

\* --------------------------------------------------------------- Remove
\* faulty variant: the error of blacklist() is dropped
AfterBanIgnored(ok) == "r_evict"

\* lines 219-221: where Remove continues after blacklist() returned
AfterBan(ok) == IF ok THEN "r_evict" ELSE "done"

\* lines 218-221 and blacklist(), lines 152-160: Remove with a ban
RemoveBan(p, id, duration, ok) ==
    /\ MayCall(p)
    /\ duration # 0
    /\ db' = IF ok
             THEN Put(Key(RateLimitBlacklist, id), PutUint64(Deadline(now, duration)))
             ELSE db
    /\ SetProc(p, [Enter(p, "Remove", id) EXCEPT
                      !.duration = duration,
                      !.pc = AfterBan(ok),
                      !.ret = IF ok THEN @ ELSE "ioerror",
                      !.fail = Failed(@, ok, "ban")])
    /\ ban' = IF ok
              THEN [ban EXCEPT ![id] = [at |-> now, duration |-> duration]]
              ELSE ban
    /\ Tally(id, FALSE, tally[id])
    /\ UNCHANGED << now, initialized, heap, mu, acct, conc >>

\* lines 223-225: Lock and take the bucket out of the registry; `me` are
\* the caller's locals
Evict(p, me) ==
    /\ Lock(p)
    /\ initialized' = [initialized EXCEPT ![me.id] = Nil]
    /\ SetProc(p, [me EXCEPT !.pc = "r_unlock", !.bucket = initialized[me.id]])
    /\ Tally(me.id, TRUE, [tally[me.id] EXCEPT !.lifecycle = TRUE])
    /\ UNCHANGED << now, db, heap, acct, ban, conc >>

\* lines 223-225, after the ban was written
RemoveEvict(p) ==
    /\ At(p, "r_evict")
    /\ Evict(p, proc[p])

\* line 218 and lines 223-225: Remove(id, 0) goes straight to the registry
RemoveNoBan(p, id) ==
    /\ MayCall(p)
    /\ Evict(p, Enter(p, "Remove", id))

\* lines 226-229: Unlock; with no bucket there is nothing to store
RemoveUnlock(p) ==
    /\ At(p, "r_unlock")
    /\ Unlock(p)
    /\ IF proc[p].bucket = Nil
       THEN SetProc(p, [proc[p] EXCEPT !.pc = "done", !.ret = "nil"])
       ELSE SetProc(p, [proc[p] EXCEPT !.pc = "r_read"])
    /\ UNCHANGED << now, db, initialized, heap, acct, ban, conc, tally >>

\* line 230, store(): read the bucket
RemoveStoreRead(p) ==
    /\ At(p, "r_read")
    /\ ReadConsumed(p, "r_put")

\* line 230, store(): write the record; its error is returned
RemoveStorePut(p, ok) ==
    /\ At(p, "r_put")
    /\ db' = StorePut(p, ok)
    /\ SetProc(p, [proc[p] EXCEPT !.pc = "done",
                                  !.ret = IF ok THEN "nil" ELSE "ioerror",
                                  !.fail = Failed(@, ok, "snapshot")])
    /\ Tally(proc[p].id, ok, tally[proc[p].id])
    /\ UNCHANGED << now, initialized, heap, mu, acct, ban, conc >>

\* --------------------------------------------------------- UpdateConfig
\* lines 259-261 and 265.  With no bucket registered old is nil and
\* compare dereferences it: the call panics between Lock and Unlock.
UpdateLookup(p, id, config) ==
    /\ MayCall(p)
    /\ Lock(p)
    /\ LET me == [Enter(p, "UpdateConfig", id) EXCEPT !.config = config]
           old == initialized[id]
       IN IF old = Nil
          THEN /\ SetProc(p, [me EXCEPT !.pc = "panic"])
               /\ UNCHANGED initialized
          ELSE IF compare(config, heap[old])
          THEN /\ SetProc(p, [me EXCEPT !.pc = "u_same", !.bucket = old])
               /\ UNCHANGED initialized
          ELSE /\ SetProc(p, [me EXCEPT !.pc = "u_evicted", !.bucket = old])
               /\ initialized' = [initialized EXCEPT ![id] = Nil]
    /\ Tally(id, TRUE,
             [tally[id] EXCEPT !.updates = IF @ < ManyUpdates THEN @ + 1 ELSE @])
    /\ UNCHANGED << now, db, heap, acct, ban, conc >>

\* lines 262-263: Unlock and return
UpdateUnlockSame(p) ==
    /\ At(p, "u_same")
    /\ Unlock(p)
    /\ SetProc(p, [proc[p] EXCEPT !.pc = "done", !.ret = "nil"])
    /\ UNCHANGED << now, db, initialized, heap, acct, ban, conc, tally >>

\* line 266: Unlock
UpdateUnlock(p) ==
    /\ At(p, "u_evicted")
    /\ Unlock(p)
    /\ SetProc(p, [proc[p] EXCEPT !.pc = "u_taken"])
    /\ UNCHANGED << now, db, initialized, heap, acct, ban, conc, tally >>

\* lines 267-270: taken = old.Capacity() - old.Available()
UpdateTaken(p) ==
    /\ At(p, "u_taken")
    /\ ReadConsumed(p, "u_get")

\* line 271, getOrCreate: lookup
UpdateGetOrCreate(p) ==
    /\ At(p, "u_get")
    /\ Lookup(p, proc[p], proc[p].id, "u_insert")

\* line 271, getOrCreate: insert
UpdateInsert(p) ==
    /\ At(p, "u_insert")
    /\ Insert(p, proc[p].config, "u_carry")

\* faulty variant: the new bucket starts afresh
CarryNothing(taken) == 0

\* line 271: what is debited from the bucket that getOrCreate returned
Carry(taken) == taken

\* line 271, TakeAvailable(taken)
UpdateCarry(p) ==
    /\ At(p, "u_carry")
    /\ LET ref == proc[p].bucket
           t == BucketTakeAvailable(heap[ref], now, Carry(proc[p].val))
       IN /\ heap' = [heap EXCEPT ![ref] = t.bucket]
          /\ acct' = Account(ref, 0, t.taken,
                             IF proc[p].val <= 0 THEN 0 ELSE Credit(heap[ref], now))
          /\ SetProc(p, [proc[p] EXCEPT !.pc = "done", !.ret = "nil"])
    /\ UNCHANGED << now, db, initialized, mu, ban, conc, tally >>

\* ----------------------------------------------------------- environment
\* the caller has its result; buckets nobody refers to any more are gone
Return(p) ==
    /\ At(p, "done")
    /\ LET q == [proc EXCEPT ![p] = IdleProc]
       IN /\ proc' = q
          /\ heap' = Collect(heap, initialized, q)
          /\ acct' = Collect(acct, initialized, q)
    /\ UNCHANGED << now, db, initialized, mu, ban, conc, tally, calls >>

\* a second passes between two calls
Tick ==
    /\ ~Crashed
    /\ Quiet
    /\ now < MaxTime
    /\ now' = now + 1
    /\ tally' = [i \in Ids |-> Untracked]
    /\ UNCHANGED << db, initialized, heap, mu, proc, acct, ban, conc, calls >>

\* ------------------------------------------------------------------ Init
\* The limiter right after NewPersisted: no bucket registered.  The store
\* outlives the process: it may hold a config override (decodable or not)
\* and a capacity record of the wrong length.
Absent == << >>

ConfigChoices == { Absent, RlpEncodeConfig(overrideConfig), UndecodableConfig }

CapacityChoices == { Absent, MalformedCapacity }

StoreOf(cf, cp) ==
    [k \in { Key(RateLimitConfig, i) : i \in { j \in Ids : cf[j] # Absent } }
        \cup { Key(RateLimitCapacity, i) : i \in { j \in Ids : cp[j] # Absent } }
      |-> IF k[1] = RateLimitConfig THEN cf[k[3]] ELSE cp[k[3]]]

InitialStores ==
    { StoreOf(cf, cp) : cf \in [Ids -> ConfigChoices], cp \in [Ids -> CapacityChoices] }

InitCommon ==
    /\ initialized = [i \in Ids |-> Nil]
    /\ heap = [r \in {} |-> Nil]
    /\ acct = [r \in {} |-> Nil]
    /\ mu = Nobody
    /\ proc = [p \in Procs |-> IdleProc]
    /\ ban = [i \in Ids |-> NoBan]
    /\ tally = [i \in Ids |-> NoTally]
    /\ calls = 0

Init == InitCommon /\ now = 0 /\ db \in InitialStores /\ conc = FALSE

\* a blacklist record left by an earlier run, whose deadline has passed
StaleBlacklist == PutUint64(0)

\* Overlapping calls are followed within one second, on a store that
\* answers: the limiter starts at second 1, the store empty or holding the
\* stale blacklist record.
InitialStoresConc ==
    { [k \in {} |-> Absent],
      [k \in { Key(RateLimitBlacklist, i) : i \in Ids } |-> StaleBlacklist] }

InitConc == InitCommon /\ now = 1 /\ db \in InitialStoresConc /\ conc = TRUE

\* the answers of the store, and the arguments of the calls
Oks == IF conc THEN {TRUE} ELSE BOOLEAN

TakeCounts == IF conc THEN {1} ELSE Counts

RemoveDurations == IF conc THEN {0, 1} ELSE Durations

UpdateConfigs == IF conc THEN { c \in Configs : c.Interval = 1 /\ c.Capacity > 0 } ELSE Configs

Step(p) ==
    \/ \E id \in Ids, ok \in Oks : CreateBlacklist(p, id, ok)
    \/ \E ok \in Oks : CreateDelete(p, ok)
    \/ \E ok \in Oks : CreateConfig(p, ok)
    \/ CreateGetOrCreate(p)
    \/ CreateInsert(p)
    \/ \E ok \in Oks : CreateCapacity(p, ok)
    \/ CreateReplay(p)
    \/ \E id \in Ids, count \in TakeCounts : TakeGetOrCreate(p, id, count)
    \/ TakeInsert(p)
    \/ TakeBucket(p)
    \/ TakeStoreRead(p)
    \/ \E ok \in Oks : TakeStorePut(p, ok)
    \/ \E id \in Ids : AvailableGetOrCreate(p, id)
    \/ AvailableInsert(p)
    \/ AvailableBucket(p)
    \/ \E id \in Ids, d \in RemoveDurations, ok \in Oks : RemoveBan(p, id, d, ok)
    \/ \E id \in Ids : RemoveNoBan(p, id)
    \/ RemoveEvict(p)
    \/ RemoveUnlock(p)
    \/ RemoveStoreRead(p)
    \/ \E ok \in Oks : RemoveStorePut(p, ok)
    \/ \E id \in Ids, c \in UpdateConfigs : UpdateLookup(p, id, c)
    \/ UpdateUnlockSame(p)
    \/ UpdateUnlock(p)
    \/ UpdateTaken(p)
    \/ UpdateGetOrCreate(p)
    \/ UpdateInsert(p)
    \/ UpdateCarry(p)
    \/ Return(p)

Next == Tick \/ \E p \in Procs : Step(p)

Spec == Init /\ [][Next]_vars

NextConc == \E p \in Procs : Step(p)

SpecConc == InitConc /\ [][NextConc]_vars

\* ======================================================================
\* Properties
\* ======================================================================
Registered(id) == initialized[id] # Nil

\* what Available() of bucket object ref returns now
AvailableNow(ref) == BucketAvailable(heap[ref], now).tokens

ConsumedNow(ref) == heap[ref].capacity - AvailableNow(ref)

Finished(p, op) == proc[p].op = op /\ proc[p].pc = "done"

\* capacity and Quantum/Interval ratio of config c are those of bucket b
Equivalent(c, b) ==
    /\ c.Capacity = b.capacity
    /\ c.Interval > 0
    /\ c.Quantum * b.fillInterval = b.quantum * c.Interval

CapacityKey(id) == Key(RateLimitCapacity, id)

BlacklistKey(id) == Key(RateLimitBlacklist, id)

\* a TakeAvailable call has debited its bucket and not yet returned
TakeInFlight(ref) ==
    \E p \in Procs : proc[p].bucket = ref /\ proc[p].pc \in {"t_read", "t_put"}

\* C1: Conservation.  Every TakeAvailable(id, n) returns an amount between
\* 0 and n, and for a registered bucket that was only debited by
\* TakeAvailable calls and never credited by a refill, Available(id) equals
\* the capacity minus the sum of the amounts those calls returned.
C1_Conservation ==
    /\ \A p \in Procs :
          Finished(p, "TakeAvailable") =>
              (0 <= proc[p].rst /\ proc[p].rst <= proc[p].count)
    /\ \A id \in Ids :
          (/\ Registered(id)
           /\ ~acct[initialized[id]].dirty
           /\ ~TakeInFlight(initialized[id])
           /\ Credit(heap[initialized[id]], now) = 0)
          => AvailableNow(initialized[id]) =
                heap[initialized[id]].capacity - acct[initialized[id]].taken

\* C1 witness: the second of two calls was capped and the bucket is empty.
C1_Witness ==
    \E p \in Procs :
        /\ Finished(p, "TakeAvailable")
        /\ 0 < proc[p].rst /\ proc[p].rst < proc[p].count
        /\ Registered(proc[p].id)
        /\ ~acct[initialized[proc[p].id]].dirty
        /\ acct[initialized[proc[p].id]].taken = heap[initialized[proc[p].id]].capacity
        /\ acct[initialized[proc[p].id]].taken > proc[p].rst

\* the identity was banned by Remove(id, D) at T and the record was not
\* deleted since: T and D
Banned(id) == ban[id].duration # 0

InWindow(id) ==
    /\ Banned(id)
    /\ ban[id].at <= now
    /\ now < ban[id].at + ban[id].duration

\* p's step is the blacklist check of Create, answered by the store
ChecksBlacklist(p) ==
    /\ proc[p].pc = "idle"
    /\ proc'[p].op = "Create"
    /\ "blacklist" \notin proc'[p].fail

\* C2: Blacklist window.  A Create(id) whose blacklist check runs at a time
\* in [T, T+D) after Remove(id, D) at T ends there with the blacklisted
\* error and changes neither the registry, nor any bucket, nor the store.
C2_BlacklistWindow ==
    [][\A p \in Procs :
          (ChecksBlacklist(p) /\ InWindow(proc'[p].id)) =>
              /\ proc'[p].pc = "done"
              /\ proc'[p].ret = "blacklisted"
              /\ ~proc'[p].created
              /\ UNCHANGED << initialized, heap, db >>]_vars

\* C2 witness: a Create on an Active identity was rejected one second
\* into a two second ban.
C2_Witness ==
    \E p \in Procs :
        /\ Finished(p, "Create")
        /\ proc[p].ret = "blacklisted"
        /\ InWindow(proc[p].id)
        /\ now > ban[proc[p].id].at
        /\ Registered(proc[p].id)

\* p's Create has returned, its blacklist check answered by the store; the
\* identity was banned until `deadline` when it was called
Expiry(p) == proc[p].preBan.at + proc[p].preBan.duration

CreateAfterBan(p) ==
    /\ Finished(p, "Create")
    /\ "blacklist" \notin proc[p].fail
    /\ proc[p].preBan.duration # 0

\* C3 as stated: a Create at or after T+D, also at exactly T+D, is not
\* rejected as blacklisted.
C3_AsStated ==
    \A p \in Procs :
        (CreateAfterBan(p) /\ now >= Expiry(p)) => proc[p].ret # "blacklisted"

\* C3 amended: a Create strictly after T+D whose store calls all answer is
\* not rejected as blacklisted, has deleted the blacklist record, and
\* returns success unless the config override fails to decode; a Create at
\* exactly T+D is still rejected as blacklisted.
C3_BlacklistExpiry ==
    \A p \in Procs :
        /\ (CreateAfterBan(p) /\ proc[p].fail = {} /\ now > Expiry(p))
           => /\ proc[p].ret \in {"nil", "decode"}
              /\ proc[p].ret = "decode" <=>
                    (/\ Key(RateLimitConfig, proc[p].id) \in DOMAIN db
                     /\ db[Key(RateLimitConfig, proc[p].id)] = UndecodableConfig)
              /\ BlacklistKey(proc[p].id) \notin DOMAIN db
        /\ (CreateAfterBan(p) /\ now = Expiry(p))
           => proc[p].ret = "blacklisted"

\* C3 witness: a Create two seconds after a one second ban succeeded and
\* the record is gone.
C3_Witness ==
    \E p \in Procs :
        /\ CreateAfterBan(p)
        /\ proc[p].fail = {}
        /\ now > Expiry(p)
        /\ proc[p].ret = "nil"
        /\ BlacklistKey(proc[p].id) \notin DOMAIN db

\* p's UpdateConfig on an Active identity has returned; c is what the
\* bucket had consumed when it was called
UpdatedActive(p) == Finished(p, "UpdateConfig") /\ proc[p].preBucket # Nil

ConsumedBefore(p) == heap[proc[p].preBucket].capacity - proc[p].preAvail

\* C4 as stated: after UpdateConfig with a config that is not equivalent,
\* a new bucket is registered whose consumed amount is exactly c.
C4_AsStated ==
    \A p \in Procs :
        (UpdatedActive(p) /\ ~Equivalent(proc[p].config, heap[proc[p].preBucket]))
        => /\ Registered(proc[p].id)
           /\ initialized[proc[p].id] # proc[p].preBucket
           /\ ConsumedNow(initialized[proc[p].id]) = ConsumedBefore(p)

\* C4 amended: after UpdateConfig with a config that is not equivalent
\* (and whose fields are positive: no other one lets the call return), a
\* new bucket with the capacity and rate of the config is registered and
\* its consumed amount is min(c, newConfig.Capacity).
C4_ReconfigurationContinuity ==
    \A p \in Procs :
        (UpdatedActive(p) /\ ~Equivalent(proc[p].config, heap[proc[p].preBucket]))
        => /\ ValidConfig(proc[p].config)
           /\ proc[p].ret = "nil"
           /\ Registered(proc[p].id)
           /\ initialized[proc[p].id] # proc[p].preBucket
           /\ Equivalent(proc[p].config, heap[initialized[proc[p].id]])
           /\ ConsumedNow(initialized[proc[p].id]) =
                 Min(ConsumedBefore(p), proc[p].config.Capacity)

\* C4 witness: a bucket that had consumed 1 of 2 was replaced by one of a
\* different capacity that has consumed 1.
C4_Witness ==
    \E p \in Procs :
        /\ UpdatedActive(p)
        /\ ~Equivalent(proc[p].config, heap[proc[p].preBucket])
        /\ ConsumedBefore(p) > 0
        /\ Registered(proc[p].id)
        /\ initialized[proc[p].id] # proc[p].preBucket
        /\ ConsumedNow(initialized[proc[p].id]) = ConsumedBefore(p)

\* C5: UpdateConfig with an equivalent config returns success and leaves
\* the same bucket instance registered with the same available count.
C5_EquivalentNoOp ==
    \A p \in Procs :
        (UpdatedActive(p) /\ Equivalent(proc[p].config, heap[proc[p].preBucket]))
        => /\ proc[p].ret = "nil"
           /\ initialized[proc[p].id] = proc[p].preBucket
           /\ ~proc[p].created
           /\ AvailableNow(proc[p].preBucket) = proc[p].preAvail

\* C5 witness: a partly consumed bucket kept over an UpdateConfig whose
\* Quantum and Interval differ from the bucket's and have the same ratio.
C5_Witness ==
    \E p \in Procs :
        /\ UpdatedActive(p)
        /\ Equivalent(proc[p].config, heap[proc[p].preBucket])
        /\ proc[p].config.Quantum # heap[proc[p].preBucket].quantum
        /\ proc[p].preAvail < heap[proc[p].preBucket].capacity
        /\ initialized[proc[p].id] = proc[p].preBucket

\* the capacity record of id is stored with the right length
HasSnapshot(id) == CapacityKey(id) \in DOMAIN db /\ Len(db[CapacityKey(id)]) = 16

SnapshotConsumed(id) == Uint64(SubSeq(db[CapacityKey(id)], 1, 8))

SnapshotSavedAt(id) == Uint64(SubSeq(db[CapacityKey(id)], 9, 16))

\* Remove(id, 0) on an Active bucket returned, its store calls answered
RemovedActive(p) ==
    /\ Finished(p, "Remove")
    /\ proc[p].duration = 0
    /\ proc[p].preBucket # Nil
    /\ proc[p].fail = {}

\* the snapshot round trip of Remove: the bucket is evicted and the record
\* holds what it had consumed and the time
Evicted(p) ==
    /\ proc[p].ret = "nil"
    /\ ~Registered(proc[p].id)
    /\ HasSnapshot(proc[p].id)
    /\ SnapshotConsumed(proc[p].id) = ConsumedBefore(p)
    /\ SnapshotSavedAt(proc[p].id) = now

\* Create(id) with no bucket registered returned success with a snapshot
\* stored, its store calls answered
RestoredFromSnapshot(p) ==
    /\ Finished(p, "Create")
    /\ proc[p].preBucket = Nil
    /\ proc[p].fail = {}
    /\ proc[p].ret = "nil"
    /\ HasSnapshot(proc[p].id)

\* C6 as stated: Remove(id, 0) persists consumed = capacity - available,
\* and the following Create yields available = capacity - c exactly.
C6_AsStated ==
    \A p \in Procs :
        /\ RemovedActive(p) => Evicted(p)
        /\ RestoredFromSnapshot(p) =>
              /\ proc[p].created
              /\ AvailableNow(proc[p].bucket) =
                    heap[proc[p].bucket].capacity - SnapshotConsumed(proc[p].id)

\* C6 amended: Remove(id, 0) persists consumed = capacity - available, and
\* the following Create yields available = capacity - min(c, capacity),
\* which is capacity - c unless the new bucket's capacity is below c; the
\* time since savedAt earns no credit.
C6_SnapshotRoundTrip ==
    \A p \in Procs :
        /\ RemovedActive(p) => Evicted(p)
        /\ RestoredFromSnapshot(p) =>
              /\ proc[p].created
              /\ AvailableNow(proc[p].bucket) =
                    heap[proc[p].bucket].capacity -
                        Min(SnapshotConsumed(proc[p].id), heap[proc[p].bucket].capacity)

\* C6 witness: a Create later than savedAt restored an empty bucket whose
\* rate would have refilled it since.
C6_Witness ==
    \E p \in Procs :
        /\ RestoredFromSnapshot(p)
        /\ now > SnapshotSavedAt(proc[p].id)
        /\ SnapshotConsumed(proc[p].id) = heap[proc[p].bucket].capacity
        /\ AvailableNow(proc[p].bucket) = 0

\* the capacity record of id is stored with a length other than 16
HasMalformedSnapshot(id) ==
    CapacityKey(id) \in DOMAIN db /\ Len(db[CapacityKey(id)]) # 16

C8_AsStated ==
    \A p \in Procs :
        (Finished(p, "Create") /\ proc[p].fail \cap {"config", "capacity"} # {})
        => proc[p].ret # "nil"

\* C9: TakeAvailable returns min(count, available) and has debited the
\* bucket by it, whether the snapshot write failed or not.
C9_TakeIgnoresStore ==
    \A p \in Procs :
        Finished(p, "TakeAvailable")
        => /\ proc[p].ret = "nil"
           /\ proc[p].rst = Min(proc[p].count, proc[p].preAvail)
           /\ AvailableNow(proc[p].bucket) = proc[p].preAvail - proc[p].rst

\* C9 witness: a TakeAvailable whose snapshot write failed returned tokens.
C9_Witness ==
    \E p \in Procs :
        /\ Finished(p, "TakeAvailable")
        /\ "snapshot" \in proc[p].fail
        /\ proc[p].rst > 0
        /\ AvailableNow(proc[p].bucket) = proc[p].preAvail - proc[p].rst

\* p's step is the blacklist write of Remove, and the store failed it
BanFails(p) ==
    /\ proc[p].pc = "idle"
    /\ proc'[p].op = "Remove"
    /\ "ban" \in proc'[p].fail

\* C10: when the blacklist write of Remove(id, D) fails, Remove ends there
\* with that error: the registry, the buckets and the store are unchanged.
C10_BanFailureStops ==
    [][\A p \in Procs :
          BanFails(p) =>
              /\ proc'[p].pc = "done"
              /\ proc'[p].ret = "ioerror"
              /\ UNCHANGED << initialized, heap, db >>]_vars

\* C10 witness: Remove with a ban returned the error and the partly
\* consumed bucket is still registered.
C10_Witness ==
    \E p \in Procs :
        /\ Finished(p, "Remove")
        /\ "ban" \in proc[p].fail
        /\ proc[p].ret = "ioerror"
        /\ Registered(proc[p].id)
        /\ initialized[proc[p].id] = proc[p].preBucket
        /\ AvailableNow(proc[p].preBucket) = proc[p].preAvail
        /\ proc[p].preAvail < heap[proc[p].preBucket].capacity

\* the positions between the lookup and the insert of getOrCreate
InsertPcs == {"c_insert", "t_insert", "a_insert", "u_insert"}

\* p's step is the return of getOrCreate
Inserts(p) ==
    /\ proc[p].pc \in InsertPcs
    /\ proc'[p].pc \notin InsertPcs \cup {"panic"}

\* p holds the bucket that getOrCreate returned to it
Holds(p) ==
    /\ proc[p].op \in {"Create", "TakeAvailable", "Available"}
    /\ proc[p].pc \notin InsertPcs \cup {"idle", "panic"}
    /\ proc[p].bucket # Nil

\* only TakeAvailable and Available have been called on id so far
OnlyImplicit(id) ==
    Tracked(id) /\ ~tally[id].lifecycle /\ tally[id].updates = 0

\* C11: Registry uniqueness.  getOrCreate returns the registered bucket:
\* when one was registered it is that one, unchanged, whatever config was
\* passed, and nothing is created; when none was registered exactly one
\* new bucket is created and registered.  So while callers only make first
\* accesses there is one bucket and every caller holds that instance.
C11_RegistryUniqueness ==
    /\ [][\A p \in Procs :
            Inserts(p) =>
                /\ proc'[p].bucket = initialized'[proc[p].id]
                /\ initialized[proc[p].id] # Nil =>
                      /\ initialized' = initialized
                      /\ heap' = heap
                      /\ proc'[p].created = proc[p].created
                /\ initialized[proc[p].id] = Nil =>
                      /\ proc'[p].created
                      /\ proc'[p].bucket \notin DOMAIN heap
                      /\ DOMAIN heap' = DOMAIN heap \cup {proc'[p].bucket}]_vars
    /\ [](\A id \in Ids :
            OnlyImplicit(id) =>
                /\ Cardinality(DOMAIN heap) <= 1
                /\ \A p \in Procs :
                      (Holds(p) /\ proc[p].id = id) => proc[p].bucket = initialized[id])

\* C11 witness: a Create and a TakeAvailable or Available that both began
\* with no bucket registered hold the same instance; one of them made it.
C11_Witness ==
    \E p, q \in Procs :
        /\ p # q
        /\ Holds(p) /\ Holds(q)
        /\ proc[p].id = proc[q].id
        /\ proc[p].op = "Create" /\ proc[p].preBucket = Nil
        /\ proc[q].op # "Create" /\ proc[q].preBucket = Nil
        /\ proc[q].created /\ ~proc[p].created
        /\ proc[p].bucket = proc[q].bucket
        /\ proc[p].bucket = initialized[proc[p].id]

\* a TakeAvailable or Available on an identity with no registered bucket
\* has returned
ImplicitFirst(p) ==
    /\ proc[p].op \in {"TakeAvailable", "Available"}
    /\ proc[p].pc = "done"
    /\ proc[p].preBucket = Nil

\* bucket b is as newBucket makes it from config c
MadeFrom(b, c) ==
    /\ b.capacity = c.Capacity
    /\ b.quantum = c.Quantum
    /\ b.fillInterval = c.Interval

\* a config override that decodes is stored for id
HasOverride(id) ==
    /\ Key(RateLimitConfig, id) \in DOMAIN db
    /\ RlpDecodeConfig(db[Key(RateLimitConfig, id)]).ok

\* C12: TakeAvailable and Available on an identity with no registered
\* bucket make one from the default config, at full capacity, whatever the
\* store holds: Available returns the default capacity and TakeAvailable
\* min(count, default capacity), also for a blacklisted identity and with
\* an override stored.
C12_ImplicitCreation ==
    \A p \in Procs :
        ImplicitFirst(p) =>
            /\ proc[p].created
            /\ proc[p].ret = "nil"
            /\ MadeFrom(heap[proc[p].bucket], defaultConfig)
            /\ proc[p].op = "Available" => proc[p].rst = defaultConfig.Capacity
            /\ proc[p].op = "TakeAvailable" =>
                  /\ proc[p].preAvail = defaultConfig.Capacity
                  /\ proc[p].rst = Min(proc[p].count, defaultConfig.Capacity)

\* C12 witness: a TakeAvailable on an identity that is blacklisted and has
\* an override of capacity 1 stored returned 2 tokens.
C12_Witness ==
    \E p \in Procs :
        /\ ImplicitFirst(p)
        /\ proc[p].op = "TakeAvailable"
        /\ InWindow(proc[p].id)
        /\ HasOverride(proc[p].id)
        /\ RlpDecodeConfig(db[Key(RateLimitConfig, proc[p].id)]).cfg.Capacity
              < defaultConfig.Capacity
        /\ proc[p].rst = defaultConfig.Capacity

\* bucket b is within its bounds, now and after the refill that is due
WithinBounds(b) ==
    /\ b.capacity > 0
    /\ 0 <= b.availableTokens /\ b.availableTokens <= b.capacity
    /\ 0 <= BucketAvailable(b, now).tokens
    /\ BucketAvailable(b, now).tokens <= b.capacity

\* C13: Bucket invariant.  In every reachable state every bucket, the
\* registered ones and those a caller still holds, has capacity > 0 and
\* 0 <= available <= capacity.
C13_BucketInvariant ==
    /\ \A id \in Ids : Registered(id) => WithinBounds(heap[initialized[id]])
    /\ \A r \in DOMAIN heap : WithinBounds(heap[r])

\* C13 witness: a Create replayed a snapshot of more than the capacity of
\* the bucket it made, which is registered and empty.
C13_Witness ==
    \E p \in Procs :
        /\ RestoredFromSnapshot(p)
        /\ proc[p].created
        /\ SnapshotConsumed(proc[p].id) > heap[proc[p].bucket].capacity
        /\ initialized[proc[p].id] = proc[p].bucket
        /\ heap[proc[p].bucket].availableTokens = 0

\* p called UpdateConfig, with a config of positive fields, on an identity
\* with no registered bucket
UpdatesUnregistered(p) ==
    /\ proc[p].op = "UpdateConfig"
    /\ proc[p].preBucket = Nil
    /\ ValidConfig(proc[p].config)

\* C14 as stated: UpdateConfig on an identity with no registered bucket
\* completes and returns success; a new bucket made from the config is
\* registered and full.
C14_AsStated ==
    \A p \in Procs :
        UpdatesUnregistered(p) =>
            /\ proc[p].pc # "panic"
            /\ proc[p].pc = "done" =>
                  /\ proc[p].ret = "nil"
                  /\ proc[p].created
                  /\ initialized[proc[p].id] = proc[p].bucket
                  /\ MadeFrom(heap[proc[p].bucket], proc[p].config)
                  /\ AvailableNow(proc[p].bucket) = proc[p].config.Capacity

\* the config record of id is absent or decodes
ConfigLoads(id) == Key(RateLimitConfig, id) \notin DOMAIN db \/ HasOverride(id)

\* Create on an Active identity that is not blacklisted has returned, its
\* store calls answered
CreatedActive(p) ==
    /\ Finished(p, "Create")
    /\ proc[p].preBucket # Nil
    /\ proc[p].fail = {}
    /\ proc[p].ret # "blacklisted"
    /\ ConfigLoads(proc[p].id)

\* C15 as stated: Create on an Active identity that is not blacklisted
\* returns success and keeps the bucket as it is: the same instance stays
\* registered and its available count is unchanged.
C15_AsStated ==
    \A p \in Procs :
        CreatedActive(p) =>
            /\ proc[p].ret = "nil"
            /\ ~proc[p].created
            /\ initialized[proc[p].id] = proc[p].preBucket
            /\ AvailableNow(proc[p].preBucket) = proc[p].preAvail

\* the positions inside a critical section on r.mu: between the lookup and
\* the insert of getOrCreate, and before the Unlock of Remove and of
\* UpdateConfig
LockedPcs == InsertPcs \cup {"r_unlock", "u_same", "u_evicted"}

\* the positions from which the caller's next step is a Get, Put or Delete
\* on the store; a Create or a Remove with a ban starts with one
StorePcs == {"idle", "c_delete", "c_config", "c_capacity", "t_put", "r_put"}

\* C16: r.mu is held only inside the critical sections of getOrCreate,
\* Remove and UpdateConfig: a caller about to make a store call, a caller
\* that has returned and a caller outside the limiter do not hold it.  The
\* one caller that holds it outside a critical section is an UpdateConfig
\* that has panicked, which neither returns nor calls the store.
C16_LockScope ==
    \A p \in Procs :
        /\ proc[p].pc \in StorePcs \cup {"done"} => mu # p
        /\ mu = p => proc[p].pc \in LockedPcs \cup {"panic"}
        /\ (mu = p /\ proc[p].pc = "panic") => proc[p].op = "UpdateConfig"

\* C16 witness: one caller is inside getOrCreate holding r.mu while the
\* other is about to write the store, and a third call has returned.
C16_Witness ==
    \E p, q \in Procs :
        /\ mu = p
        /\ proc[p].pc \in InsertPcs
        /\ proc[q].pc \in {"t_put", "r_put"}
        /\ calls >= 3

\* one UpdateConfig and otherwise only TakeAvailable and Available have
\* been called on id
OneUpdate(id) ==
    Tracked(id) /\ ~tally[id].lifecycle /\ tally[id].updates = 1

\* p's UpdateConfig with a config not equivalent to the bucket it found has
\* returned, and every other call on the identity, before it or overlapping
\* it, was a TakeAvailable or an Available
UpdatedAmongTakes(p) ==
    /\ Finished(p, "UpdateConfig")
    /\ OneUpdate(proc[p].id)
    /\ proc[p].preBucket # Nil
    /\ ~Equivalent(proc[p].config, heap[proc[p].preBucket])

\* C17 as stated: when UpdateConfig(id, newConfig) with a config that is
\* not equivalent overlaps TakeAvailable or Available calls on the
\* identity, the bucket registered when it has returned has the capacity
\* and rate of newConfig.
C17_AsStated ==
    \A p \in Procs :
        UpdatedAmongTakes(p) =>
            /\ Registered(proc[p].id)
            /\ Equivalent(proc[p].config, heap[initialized[proc[p].id]])

\* every call has returned
AllReturned == \A p \in Procs : proc[p].pc \in {"idle", "done"}

\* C18 as stated: no debit is lost across reconfiguration.  When one
\* UpdateConfig and otherwise only TakeAvailable and Available calls have
\* been made on an identity, with no time elapsed, and all of them have
\* returned, the registered bucket has consumed min(its capacity, the
\* tokens granted to the identity).
C18_AsStated ==
    \A id \in Ids :
        (AllReturned /\ OneUpdate(id) /\ Registered(id)) =>
            ConsumedNow(initialized[id]) =
                Min(heap[initialized[id]].capacity, tally[id].granted)

\* a TakeAvailable on id has returned and no call is in progress; only
\* TakeAvailable and Available were ever called on id, the store answered
\* every call and the clock stood still
QuiescentAfterTakes(id) ==
    /\ AllReturned
    /\ OnlyImplicit(id)
    /\ \E p \in Procs : Finished(p, "TakeAvailable") /\ proc[p].id = id

\* C19 as stated: snapshot freshness at quiescence.  With no call in
\* progress after TakeAvailable calls, overlapping or not, the stored
\* capacity snapshot holds the consumed amount, capacity - available, of
\* the registered bucket.
C19_AsStated ==
    \A id \in Ids :
        QuiescentAfterTakes(id) =>
            /\ Registered(id)
            /\ HasSnapshot(id)
            /\ SnapshotConsumed(id) = ConsumedNow(initialized[id])

\* only Create, Remove with duration 0, TakeAvailable and Available were
\* called on id: the default config is the only one in force, the store
\* answered every call and the clock stood still
DefaultOnly(id) ==
    /\ Tracked(id)
    /\ tally[id].updates = 0

\* C20 as stated: consumption is not forgotten across eviction.  Over any
\* sequence of Create, Remove(id, 0), TakeAvailable and Available calls on
\* one identity, with no time elapsed, a healthy store and the default
\* config, the amounts returned by TakeAvailable sum to at most Capacity.
C20_AsStated ==
    \A id \in Ids :
        DefaultOnly(id) => tally[id].granted <= defaultConfig.Capacity

====
